---- MODULE Spec2Model ----
(***************************************************************************)
(* maven_iuvs/download.py: sync_data and get_vm_file_list.                 *)
(*                                                                         *)
(* A file is known by its directory prefix, its orbit folder and its       *)
(* basename; a basename is a stem (instrument, orbit, channel, timestamp)  *)
(* and a version field.  The VM holds two trees (production and stage),    *)
(* the local machine one (l1b_dir).  get_latest_files lives in             *)
(* maven_iuvs/search.py and is described by sections 4.1 and 4.2 of the    *)
(* specification.                                                          *)
(***************************************************************************)
EXTENDS Integers, Sequences, FiniteSets, TLC

\* ---------------------------------------------------------------- bounds
MaxVer == 2      \* version fields that parse are 1..MaxVer
MaxFiles == 3    \* files in the three trees together, at the start
MaxAsk == 1      \* answers to the delete prompt that are neither y nor n

\* ------------------------------------------------------------ the files
Stems == {"a", "b"}
\* -2 and -1 stand for two version fields that are not numbers
Tags == {-2, -1} \cup (1..MaxVer)

production_l1b == "/maven_iuvs/production/products/level1b/"
stage_l1b == "/maven_iuvs/stage/products/level1b/"
\* maven_iuvs.user_paths.l1b_dir: a local directory, not one of the VM's trees
l1b_dir == "l1b_dir/"

\* the kernels the VM holds under /maven_iuvs/stage/anc/spice/
vm_spice == {"latest.bsp"}

\* the default pattern, and one that selects the files of one version
Patterns == {"*.fits*", "*_v01_*"}

\* a file's orbit folder follows from the orbit number in its stem
OrbitFolder(stem) == IF stem = "a" THEN "orbit00100" ELSE "orbit00200"
Folders == {OrbitFolder(s) : s \in Stems}

\* root-relative paths, folder/basename: product a in every version and with
\* the version fields that do not parse, product b in its first version
RelPaths ==
    {[folder |-> OrbitFolder("a"), stem |-> "a", tag |-> t] : t \in Tags}
    \cup {[folder |-> OrbitFolder("b"), stem |-> "b", tag |-> 1]}

\* prefix + relative path, and the two string operations sync_data uses
Join(dir, rel) == [dir |-> dir, folder |-> rel.folder, stem |-> rel.stem, tag |-> rel.tag]
StartsWith(a, prefix) == a.dir = prefix
StripPrefix(a) == [folder |-> a.folder, stem |-> a.stem, tag |-> a.tag]

\* fnmatch of a basename against the glob pattern
Match(pat, rel) == pat = "*.fits*" \/ rel.tag = 1

\* ------------------------------------------------------------ sequences
Range(s) == {s[i] : i \in DOMAIN s}

\* lexicographic rank of a relative path (folder, stem, version field)
Rank(rel) == (IF rel.stem = "a" THEN 0 ELSE 1) * (MaxVer + 3) + rel.tag + 2

RECURSIVE Sorted(_)
Sorted(S) ==
    IF S = {} THEN <<>>
    ELSE LET m == CHOOSE x \in S : \A y \in S : Rank(x) <= Rank(y)
         IN  <<m>> \o Sorted(S \ {m})

\* the elements of s at the indices in idx, in order
RECURSIVE PickFrom(_, _, _)
PickFrom(s, idx, i) ==
    IF i > Len(s) THEN <<>>
    ELSE (IF i \in idx THEN <<s[i]>> ELSE <<>>) \o PickFrom(s, idx, i + 1)

\* ------------------------------------------- maven_iuvs.search (spec 4.1, 4.2)
parse(path) ==
    IF path.tag \in 1..MaxVer
    THEN [logical_key |-> <<path.stem, "">>, version_ordinal |-> path.tag, ok |-> TRUE]
    ELSE [logical_key |-> <<path.stem, "unparsable">>, version_ordinal |-> 0, ok |-> FALSE]

\* record i is selected: no record of its key has a higher ordinal, and none
\* with the same ordinal comes earlier
Selected(files, i) ==
    \A j \in DOMAIN files :
        (j # i /\ parse(files[j]).logical_key = parse(files[i]).logical_key)
        => \/ parse(files[i]).version_ordinal > parse(files[j]).version_ordinal
           \/ /\ parse(files[i]).version_ordinal = parse(files[j]).version_ordinal
              /\ i < j

get_latest_files(files) ==
    PickFrom(files, {i \in DOMAIN files : Selected(files, i)}, 1)

\* -------------------------------------------------------- get_vm_file_list
\* ls in each orbit folder, in ls order; a folder whose ls wrote to stderr
\* (no match, or a failure: the folders in bad) is skipped
RECURSIVE ListFolders(_, _, _, _)
ListFolders(tree, serverdir, pat, todo) ==
    IF todo = <<>> THEN <<>>
    ELSE Sorted({Join(serverdir, r) : r \in {x \in tree : x.folder = Head(todo) /\ Match(pat, x)}})
         \o ListFolders(tree, serverdir, pat, Tail(todo))

FolderOrder == <<"orbit00100", "orbit00200">>

\* every folder listed, the failing ones too
get_vm_file_list_all(tree, serverdir, pat, bad) ==
    ListFolders(tree, serverdir, pat, FolderOrder)

get_vm_file_list(tree, serverdir, pat, bad) ==
    ListFolders(tree, serverdir, pat, SelectSeq(FolderOrder, LAMBDA f : f \notin bad))

\* glob.glob(l1b_dir + "/*/" + pat)
glob(files, pat) == Sorted({r \in files : Match(pat, r)})
LocalGlob(files, pat) == [i \in DOMAIN glob(files, pat) |-> Join(l1b_dir, glob(files, pat)[i])]

\* ----------------------------------------------------------------- sync_data
\* the remote lists put first
ConcatenateRemoteFirst(local, prod, stage) == prod \o stage \o local

\* the stage list put before the production list
ConcatenateStageFirst(local, prod, stage) == local \o stage \o prod

\* np.concatenate([local_filenames, prod_filenames, stage_filenames])
Concatenate(local, prod, stage) == local \o prod \o stage

\* the local list left out of the concatenation
LatestOfRemote(local, prod, stage) == get_latest_files(prod \o stage)

\* the stage list left out of the concatenation
LatestWithoutStage(local, prod, stage) == get_latest_files(local \o prod)

\* lines 396-398
LatestOfAll(local, prod, stage) == get_latest_files(Concatenate(local, prod, stage))

RECURSIVE MapStrip(_)
MapStrip(s) == IF s = <<>> THEN <<>> ELSE <<StripPrefix(Head(s))>> \o MapStrip(Tail(s))

\* the prefix test left out
FilesFromAny(latest, prefix) == MapStrip(latest)

\* the list built back to front
FilesFromReversed(latest, prefix) ==
    LET l == MapStrip(SelectSeq(latest, LAMBDA a : StartsWith(a, prefix)))
    IN  [i \in DOMAIN l |-> l[Len(l) + 1 - i]]

FilesFrom(latest, prefix) == MapStrip(SelectSeq(latest, LAMBDA a : StartsWith(a, prefix)))

\* the two arrays swapped
SetDiff1dSwapped(x, y) == Range(y) \ Range(x)

\* np.setdiff1d: the values of the first array that are not in the second
SetDiff1d(x, y) == Range(x) \ Range(y)

VARIABLES
    server,                 \* the VM: tree name -> root-relative paths
    unlistable,             \* the VM: tree name -> orbit folders whose ls fails
    disk,                   \* root-relative paths under l1b_dir
    spice_dir,              \* the kernels under spice_dir
    spice, l1b, pattern,    \* arguments of sync_data
    pc,
    prod_filenames, stage_filenames,
    local_filenames,        \* as bound at line 387
    all_local_filenames,    \* local_filenames as bound again at line 445
    files_to_sync, files_from_production, files_from_stage,
    local_files_to_delete,
    asked,                  \* prompts answered with neither y nor n
    out,                    \* what the run printed and did, in order
    first,                  \* <<>> in a first run; in a second run, how the first ended
    \* sync_integrated_reports
    reports,                \* the Ops page: report name -> content, or NoFile
    report_age,             \* the Ops page: report name -> days since the date in the name
    integrated_reports_dir, \* report name -> content, or NoFile
    check_old,
    ir_pc,
    local_files,            \* as bound at line 650
    to_download,
    browser_dump,           \* twill.browser.dump
    ir_before,              \* integrated_reports_dir when the call started
    written                 \* the names opened with "wb" and written

ir_vars == <<reports, report_age, integrated_reports_dir, check_old, ir_pc, local_files,
             to_download, browser_dump, ir_before, written>>

vars == <<ir_vars, server, unlistable, disk, spice_dir, spice, l1b, pattern, pc, prod_filenames, stage_filenames,
          local_filenames, all_local_filenames, files_to_sync, files_from_production, files_from_stage,
          local_files_to_delete, asked, out, first>>

Event(ev, n) == [ev |-> ev, n |-> n]
Say(ev, n) == out' = Append(out, Event(ev, n))

\* the subsets of S with at most k elements
RECURSIVE SubsetsUpTo(_, _)
SubsetsUpTo(S, k) ==
    IF k = 0 THEN {{}}
    ELSE LET P == SubsetsUpTo(S, k - 1)
         IN  P \cup {p \cup {x} : p \in P, x \in S}

Trees == {"local", "production", "stage"}

\* ------------------------------------------------- the integrated reports
\* line 658: timedelta(days=180)
Days == 180

\* the links of the Ops page whose text holds ".txt", in sorted order
ReportNames == <<"mvn_ir_a.txt", "mvn_ir_b.txt">>
NoFile == "<no file>"
\* "" is a file of zero size
Contents == {"", "x", "y"}
\* the date in a report's name, as days before today
Ages == {Days - 1, Days}
ListingPage == "msa_ir&show_all"

\* sync_integrated_reports is not running
NoReports ==
    /\ reports = [r \in Range(ReportNames) |-> NoFile]
    /\ report_age = [r \in Range(ReportNames) |-> Days]
    /\ integrated_reports_dir = [r \in Range(ReportNames) |-> NoFile]
    /\ check_old = FALSE
    /\ ir_pc = "idle"
    /\ local_files = {}
    /\ to_download = <<>>
    /\ browser_dump = ""
    /\ ir_before = integrated_reports_dir
    /\ written = {}

InitFiles ==
    /\ NoReports
    /\ \E placed \in SubsetsUpTo(Trees \X RelPaths, MaxFiles) :
        /\ server = [t \in {"production", "stage"} |-> {r \in RelPaths : <<t, r>> \in placed}]
        /\ disk = {r \in RelPaths : <<"local", r>> \in placed}
    /\ unlistable \in [{"production", "stage"} -> SUBSET Folders]
    /\ \A t \in {"production", "stage"} :
           unlistable[t] \subseteq {r.folder : r \in server[t]}
    /\ pattern \in Patterns
    /\ pc = "start"
    /\ prod_filenames = <<>>
    /\ stage_filenames = <<>>
    /\ local_filenames = <<>>
    /\ all_local_filenames = <<>>
    /\ files_to_sync = <<>>
    /\ files_from_production = <<>>
    /\ files_from_stage = <<>>
    /\ local_files_to_delete = {}
    /\ asked = 0
    /\ out = <<>>
    /\ first = <<>>

Init ==
    /\ InitFiles
    /\ spice_dir \in {vm_spice, vm_spice \cup {"stale.bsp"}}
    /\ spice \in BOOLEAN
    /\ l1b \in BOOLEAN

\* lines 332-356: user paths, the two directories, the password
Start ==
    /\ pc = "start"
    /\ \E dirs_exist \in BOOLEAN :
        pc' = IF dirs_exist THEN "spice" ELSE "raised"
    /\ UNCHANGED <<ir_vars, first, spice_dir, server, unlistable, disk, spice, l1b, pattern, prod_filenames, stage_filenames,
                   local_filenames, all_local_filenames, files_to_sync, files_from_production,
                   files_from_stage, local_files_to_delete, asked, out>>

AfterSpice == IF l1b THEN "list_production" ELSE "finish"

\* rsync -trvzL --delete: the local directory becomes a copy of the remote one,
\* the local files the remote one does not hold are removed
RsyncDelete(local, remote) == remote

\* lines 358-362: call_rsync(vm_spice, spice_dir, extra_flags="--delete")
SyncSpice ==
    /\ pc = "spice"
    /\ \/ /\ spice
          /\ \E rsync_ok \in BOOLEAN :
              /\ out' = out \o <<Event("Updating SPICE kernels...", 0)>>
                            \o (IF rsync_ok
                                THEN <<Event("rsync --delete spice",
                                             Cardinality(spice_dir \ RsyncDelete(spice_dir, vm_spice)))>>
                                ELSE <<>>)
              /\ spice_dir' = IF rsync_ok THEN RsyncDelete(spice_dir, vm_spice) ELSE spice_dir
              /\ pc' = IF rsync_ok THEN AfterSpice ELSE "raised"
       \/ /\ ~spice
          /\ pc' = AfterSpice
          /\ out' = out
          /\ spice_dir' = spice_dir
    /\ UNCHANGED <<ir_vars, first, server, unlistable, disk, spice, l1b, pattern, prod_filenames,
                   stage_filenames, local_filenames, all_local_filenames, files_to_sync,
                   files_from_production, files_from_stage, local_files_to_delete, asked>>

\* lines 365-377: the production listing; ssh.connect may raise, and the
\* folders that cannot be listed are skipped
ListProduction ==
    /\ pc = "list_production"
    /\ Say("Fetching names of level 1B production and stage files from the VM...", 0)
    /\ \E connected \in BOOLEAN :
        \/ /\ ~connected
           /\ pc' = "raised"
           /\ prod_filenames' = prod_filenames
        \/ /\ connected
           /\ prod_filenames' = get_vm_file_list(server["production"], production_l1b,
                                                  pattern, unlistable["production"])
           /\ pc' = "list_stage"
    /\ UNCHANGED <<ir_vars, first, spice_dir, server, unlistable, disk, spice, l1b, pattern, stage_filenames,
                   local_filenames, all_local_filenames, files_to_sync, files_from_production,
                   files_from_stage, local_files_to_delete, asked>>

\* lines 378-386: the stage listing
ListStage ==
    /\ pc = "list_stage"
    /\ \E connected \in BOOLEAN :
        \/ /\ ~connected
           /\ pc' = "raised"
           /\ stage_filenames' = stage_filenames
        \/ /\ connected
           /\ stage_filenames' = get_vm_file_list(server["stage"], stage_l1b,
                                                   pattern, unlistable["stage"])
           /\ pc' = "glob"
    /\ UNCHANGED <<ir_vars, first, spice_dir, server, unlistable, disk, spice, l1b, pattern, prod_filenames,
                   local_filenames, all_local_filenames, files_to_sync, files_from_production,
                   files_from_stage, local_files_to_delete, asked, out>>

\* line 387
GlobLocal ==
    /\ pc = "glob"
    /\ local_filenames' = LocalGlob(disk, pattern)
    /\ pc' = "check"
    /\ UNCHANGED <<ir_vars, first, spice_dir, server, unlistable, disk, spice, l1b, pattern, prod_filenames, stage_filenames,
                   all_local_filenames, files_to_sync, files_from_production,
                   files_from_stage, local_files_to_delete, asked, out>>

\* lines 392-394: nothing listed on the VM, sync_data returns
NoMatchingFiles ==
    /\ pc = "check"
    /\ Len(prod_filenames) = 0 /\ Len(stage_filenames) = 0
    /\ Say("No matching files on VM", 0)
    /\ pc' = "returned"
    /\ UNCHANGED <<ir_vars, first, spice_dir, server, unlistable, disk, spice, l1b, pattern, prod_filenames, stage_filenames,
                   local_filenames, all_local_filenames, files_to_sync, files_from_production,
                   files_from_stage, local_files_to_delete, asked>>

\* lines 396-408: the latest files of local ++ production ++ stage, and which of
\* them come from production and from stage
Plan ==
    /\ pc = "check"
    /\ ~(Len(prod_filenames) = 0 /\ Len(stage_filenames) = 0)
    /\ files_to_sync' = LatestOfAll(local_filenames, prod_filenames, stage_filenames)
    /\ files_from_production' = FilesFrom(files_to_sync', production_l1b)
    /\ files_from_stage' = FilesFrom(files_to_sync', stage_l1b)
    /\ pc' = "transfer_production"
    /\ UNCHANGED <<ir_vars, first, spice_dir, server, unlistable, disk, spice, l1b, pattern, prod_filenames, stage_filenames,
                   local_filenames, all_local_filenames, local_files_to_delete, asked, out>>

\* a transfer that copies nothing
RsyncedNothing(files, list) == files

\* rsync --files-from: every listed path is copied under l1b_dir
Rsynced(files, list) == files \cup Range(list)

\* lines 410-424
TransferProduction ==
    /\ pc = "transfer_production"
    /\ Say("Syncing files from production...", Len(files_from_production))
    /\ \E rsync_ok \in BOOLEAN :
        /\ disk' = IF rsync_ok THEN Rsynced(disk, files_from_production) ELSE disk
        /\ pc' = IF rsync_ok THEN "transfer_stage" ELSE "raised"
    /\ UNCHANGED <<ir_vars, first, spice_dir, server, unlistable, spice, l1b, pattern, prod_filenames, stage_filenames,
                   local_filenames, all_local_filenames, files_to_sync, files_from_production,
                   files_from_stage, local_files_to_delete, asked>>

\* lines 426-438
TransferStage ==
    /\ pc = "transfer_stage"
    /\ Say("Syncing files from stage...", Len(files_from_stage))
    /\ \E rsync_ok \in BOOLEAN :
        /\ disk' = IF rsync_ok THEN Rsynced(disk, files_from_stage) ELSE disk
        /\ pc' = IF rsync_ok THEN "cleanup" ELSE "raised"
    /\ UNCHANGED <<ir_vars, first, spice_dir, server, unlistable, spice, l1b, pattern, prod_filenames, stage_filenames,
                   local_filenames, all_local_filenames, files_to_sync, files_from_production,
                   files_from_stage, local_files_to_delete, asked>>

\* lines 440-448: the local files that are not the latest of the local files
Cleanup ==
    /\ pc = "cleanup"
    /\ Say("Cleaning up old files...", 0)
    /\ all_local_filenames' = LocalGlob(disk, "*.fits*")
    /\ local_files_to_delete' = SetDiff1d(all_local_filenames',
                                          get_latest_files(all_local_filenames'))
    /\ pc' = "prompt"
    /\ UNCHANGED <<ir_vars, first, spice_dir, server, unlistable, disk, spice, l1b, pattern, prod_filenames, stage_filenames,
                   local_filenames, files_to_sync, files_from_production, files_from_stage, asked>>

\* os.remove of every path in the list
Removed(files, list) == files \ {StripPrefix(f) : f \in list}

\* the files removed without the question being asked
RemoveUnasked ==
    /\ pc = "prompt"
    /\ Cardinality(local_files_to_delete) > 0
    /\ out' = Append(out, Event("os.remove", Cardinality(local_files_to_delete)))
    /\ disk' = Removed(disk, local_files_to_delete)
    /\ pc' = "index"
    /\ UNCHANGED <<ir_vars, first, spice_dir, server, unlistable, spice, l1b, pattern, prod_filenames,
                   stage_filenames, local_filenames, all_local_filenames, files_to_sync,
                   files_from_production, files_from_stage, local_files_to_delete, asked>>

\* the files removed whatever the answer is, y or n
PromptRemovesOnNo ==
    /\ pc = "prompt"
    /\ Cardinality(local_files_to_delete) > 0
    /\ \E del_files \in {"n", "y"} :
        /\ out' = out \o <<Event("Delete old files? (y/n/p)",
                                 Cardinality(local_files_to_delete))>>
                      \o (IF del_files = "y"
                          THEN <<Event("os.remove", Cardinality(local_files_to_delete))>>
                          ELSE <<>>)
        /\ disk' = Removed(disk, local_files_to_delete)
        /\ pc' = "index"
    /\ UNCHANGED <<ir_vars, first, spice_dir, server, unlistable, spice, l1b, pattern, prod_filenames,
                   stage_filenames, local_filenames, all_local_filenames, files_to_sync,
                   files_from_production, files_from_stage, local_files_to_delete, asked>>

\* lines 451-465: the delete prompt, one answer per step
Prompt ==
    /\ pc = "prompt"
    /\ Cardinality(local_files_to_delete) > 0
    /\ \E del_files \in {"n", "y", "p", "other"} :
        \/ /\ del_files = "n"
           /\ Say("Delete old files? (y/n/p)", Cardinality(local_files_to_delete))
           /\ pc' = "index"
           /\ UNCHANGED <<disk, asked>>
        \/ /\ del_files = "y"
           /\ out' = out \o <<Event("Delete old files? (y/n/p)",
                                    Cardinality(local_files_to_delete)),
                              Event("os.remove", Cardinality(local_files_to_delete))>>
           /\ disk' = Removed(disk, local_files_to_delete)
           /\ pc' = "index"
           /\ UNCHANGED asked
        \/ /\ del_files \in {"p", "other"}
           /\ asked < MaxAsk
           /\ out' = out \o <<Event("Delete old files? (y/n/p)",
                                    Cardinality(local_files_to_delete)),
                              Event(IF del_files = "p" THEN "print file list"
                                    ELSE "Please answer y or n, or p to print the file list.",
                                    0)>>
           /\ asked' = asked + 1
           /\ UNCHANGED <<disk, pc>>
    /\ UNCHANGED <<ir_vars, first, spice_dir, server, unlistable, spice, l1b, pattern, prod_filenames, stage_filenames,
                   local_filenames, all_local_filenames, files_to_sync, files_from_production,
                   files_from_stage, local_files_to_delete>>

\* line 451: nothing to delete, the loop is not entered
NoPrompt ==
    /\ pc = "prompt"
    /\ Cardinality(local_files_to_delete) = 0
    /\ pc' = "index"
    /\ UNCHANGED <<ir_vars, first, spice_dir, server, unlistable, disk, spice, l1b, pattern, prod_filenames, stage_filenames,
                   local_filenames, all_local_filenames, files_to_sync, files_from_production,
                   files_from_stage, local_files_to_delete, asked, out>>

\* lines 471-473: the index of local files is saved
SaveIndex ==
    /\ pc = "index"
    /\ all_local_filenames' = LocalGlob(disk, "*.fits*")
    /\ pc' = "finish"
    /\ UNCHANGED <<ir_vars, first, spice_dir, server, unlistable, disk, spice, l1b, pattern, prod_filenames, stage_filenames,
                   local_filenames, files_to_sync, files_from_production,
                   files_from_stage, local_files_to_delete, asked, out>>

\* lines 478-485
Finish ==
    /\ pc = "finish"
    /\ Say("Data syncing and cleanup took", 0)
    /\ pc' = "done"
    /\ UNCHANGED <<ir_vars, first, spice_dir, server, unlistable, disk, spice, l1b, pattern, prod_filenames, stage_filenames,
                   local_filenames, all_local_filenames, files_to_sync, files_from_production,
                   files_from_stage, local_files_to_delete, asked>>

Next ==
    \/ Start
    \/ SyncSpice
    \/ ListProduction
    \/ ListStage
    \/ GlobLocal
    \/ NoMatchingFiles
    \/ Plan
    \/ TransferProduction
    \/ TransferStage
    \/ Cleanup
    \/ Prompt
    \/ NoPrompt
    \/ SaveIndex
    \/ Finish

Spec == Init /\ [][Next]_vars

\* the transfers are done and every path of the delete set is gone
Applied ==
    /\ l1b
    /\ pc \in {"index", "finish", "done"}
    /\ \A f \in local_files_to_delete : StripPrefix(f) \notin disk

\* sync_data is called a second time with the same arguments
Again ==
    /\ first = <<>>
    /\ l1b
    /\ pc \in {"done", "returned"}
    /\ first' = <<[disk |-> disk, applied |-> (pc = "returned" \/ Applied)]>>
    /\ pc' = "start"
    /\ prod_filenames' = <<>>
    /\ stage_filenames' = <<>>
    /\ local_filenames' = <<>>
    /\ all_local_filenames' = <<>>
    /\ files_to_sync' = <<>>
    /\ files_from_production' = <<>>
    /\ files_from_stage' = <<>>
    /\ local_files_to_delete' = {}
    /\ asked' = 0
    /\ out' = <<>>
    /\ UNCHANGED <<ir_vars, server, unlistable, disk, spice_dir, spice, l1b, pattern>>

\* the level 1B sync alone, run twice
InitL1b ==
    /\ InitFiles
    /\ spice_dir = vm_spice
    /\ spice = FALSE
    /\ l1b = TRUE

SpecRerun == InitL1b /\ [][Next \/ Again]_vars

\* ---------------------------------------------------- sync_integrated_reports
\* sync_data is not running
NoSync ==
    /\ server = [t \in {"production", "stage"} |-> {}]
    /\ unlistable = [t \in {"production", "stage"} |-> {}]
    /\ disk = {}
    /\ spice_dir = vm_spice
    /\ spice = FALSE
    /\ l1b = FALSE
    /\ pattern = "*.fits*"
    /\ pc = "idle"
    /\ prod_filenames = <<>>
    /\ stage_filenames = <<>>
    /\ local_filenames = <<>>
    /\ all_local_filenames = <<>>
    /\ files_to_sync = <<>>
    /\ files_from_production = <<>>
    /\ files_from_stage = <<>>
    /\ local_files_to_delete = {}
    /\ asked = 0
    /\ out = <<>>
    /\ first = <<>>

sync_vars == <<server, unlistable, disk, spice_dir, spice, l1b, pattern, pc, prod_filenames,
               stage_filenames, local_filenames, all_local_filenames, files_to_sync,
               files_from_production, files_from_stage, local_files_to_delete, asked, out,
               first>>

InitReports ==
    /\ NoSync
    /\ reports \in [Range(ReportNames) -> Contents \cup {NoFile}]
    /\ report_age \in [Range(ReportNames) -> Ages]
    /\ integrated_reports_dir \in [Range(ReportNames) -> Contents \cup {NoFile}]
    /\ check_old \in BOOLEAN
    /\ ir_pc = "start"
    /\ local_files = {}
    /\ to_download = <<>>
    /\ browser_dump = ""
    /\ ir_before = integrated_reports_dir
    /\ written = {}

\* lines 658-662: the date in the name is later than the day 180 days ago, or
\* the name is not a local file
IsNew(f, local) == report_age[f] < Days \/ f \notin local

\* lines 636-662: log in, load the page, list the server's and the local
\* reports, choose the ones to download
ListReports ==
    /\ ir_pc = "start"
    /\ \E loaded \in BOOLEAN :
        \/ /\ ~loaded
           /\ ir_pc' = "raised"
           /\ UNCHANGED <<browser_dump, local_files, to_download>>
        \/ /\ loaded
           /\ browser_dump' = ListingPage
           /\ local_files' = {f \in Range(ReportNames) : integrated_reports_dir[f] # NoFile}
           /\ LET server_links == SelectSeq(ReportNames, LAMBDA f : reports[f] # NoFile)
              IN  to_download' = IF check_old THEN server_links
                                 ELSE SelectSeq(server_links, LAMBDA f : IsNew(f, local_files'))
           /\ ir_pc' = "loop"
    /\ UNCHANGED <<reports, report_age, integrated_reports_dir, check_old, ir_before, written>>
    /\ UNCHANGED sync_vars

\* lines 667-699: one pass of the loop.  A report of zero size makes
\* twill.browser.go raise ParserError; twill.browser.dump is then the page
\* loaded before, or the empty page
Download ==
    /\ ir_pc = "loop"
    /\ to_download # <<>>
    /\ LET link == Head(to_download)
           fname == link
       IN  \E stale \in BOOLEAN :
           LET raised == reports[link] = ""
               server_binary_data == IF raised THEN "" ELSE reports[link]
               dump == IF ~raised THEN reports[link]
                       ELSE IF stale THEN browser_dump ELSE ""
           IN  /\ browser_dump' = dump
               /\ IF integrated_reports_dir[fname] # NoFile
                     /\ integrated_reports_dir[fname] = dump
                  THEN UNCHANGED <<integrated_reports_dir, written>>
                  ELSE /\ integrated_reports_dir' =
                              [integrated_reports_dir EXCEPT ![fname] = server_binary_data]
                       /\ written' = written \cup {fname}
    /\ to_download' = Tail(to_download)
    /\ UNCHANGED <<reports, report_age, check_old, ir_pc, local_files, ir_before>>
    /\ UNCHANGED sync_vars

\* line 701: the loop is over
ReportsDone ==
    /\ ir_pc = "loop"
    /\ to_download = <<>>
    /\ ir_pc' = "done"
    /\ UNCHANGED <<reports, report_age, integrated_reports_dir, check_old, local_files,
                   to_download, browser_dump, ir_before, written>>
    /\ UNCHANGED sync_vars

NextReports ==
    \/ ListReports
    \/ Download
    \/ ReportsDone

SpecReports == InitReports /\ [][NextReports]_vars

\* ------------------------------------------------------------ properties
\* lines 396-408 have run
Planned ==
    l1b /\ pc \in {"transfer_production", "transfer_stage", "cleanup", "prompt",
                   "index", "finish", "done"}
\* lines 444-448 have run
CleanedUp == l1b /\ pc \in {"prompt", "index", "finish", "done"}

Key(p) == parse(p).logical_key
Ver(p) == parse(p).version_ordinal

\* the inventory the resolver is given, and its latest set
Combined == local_filenames \o prod_filenames \o stage_filenames
LatestSet == Range(get_latest_files(Combined))
Remote == Range(prod_filenames) \cup Range(stage_filenames)

\* the plan: what is transferred, what is listed for deletion, what stays
ToFetch ==
    {Join(production_l1b, r) : r \in Range(files_from_production)}
    \cup {Join(stage_l1b, r) : r \in Range(files_from_stage)}
ToDeleteLocal == local_files_to_delete
Unchanged == {p \in Range(files_to_sync) : p.dir = l1b_dir}
Superseded == {p \in Range(local_filenames) : p \notin LatestSet}

\* C1 as stated: whatever the remote listings and the pattern, the delete set is
\* the local-inventory paths that are not in the latest set of local ++ remotes
C1_Original ==
    (CleanedUp \/ pc = "returned") => ToDeleteLocal = Superseded

\* C1 (amended): once the delete set is computed it holds every local-inventory
\* path that is not in the latest set of local ++ production ++ stage, and with
\* the default pattern nothing else; when both remote listings are empty the
\* run returns with no delete set
C1_DeleteSet ==
    /\ CleanedUp => Superseded \subseteq ToDeleteLocal
    /\ (CleanedUp /\ pattern = "*.fits*") => ToDeleteLocal = Superseded
    /\ pc = "returned" => (Remote = {} /\ ToDeleteLocal = {})

C1_Witness ==
    /\ pc = "prompt"
    /\ pattern = "*.fits*"
    /\ Len(local_filenames) = 1
    /\ Len(prod_filenames) = 2
    /\ ToDeleteLocal = Range(local_filenames)

\* C2: the files transferred are exactly the members of the latest set of
\* local ++ production ++ stage that are not local, so none of them has a local
\* record of its key with an equal or higher version
C2_FetchSet ==
    (Planned \/ pc = "returned") =>
        /\ ToFetch = {p \in LatestSet : p.dir # l1b_dir}
        /\ \A p \in ToFetch : \A q \in Range(local_filenames) :
               Key(q) = Key(p) => Ver(q) < Ver(p)

C2_Witness ==
    /\ Planned
    /\ ToFetch # {}
    /\ \E q \in Range(local_filenames) : \E r \in Remote :
           Key(q) = Key(r) /\ Ver(q) > Ver(r)

\* C3: of two records of the combined sequence (local, then production, then
\* stage) with the same key and the same version, the later one is never
\* selected; a remote copy that ties with a local copy is not transferred
C3_TieBreak ==
    Planned =>
        /\ \A i, j \in DOMAIN Combined :
               (i < j /\ Key(Combined[i]) = Key(Combined[j])
                      /\ Ver(Combined[i]) = Ver(Combined[j]))
               => /\ Combined[j] \notin Range(files_to_sync)
                  /\ Combined[j] \notin ToFetch
                  /\ ((\A k \in DOMAIN Combined :
                          Key(Combined[k]) = Key(Combined[i])
                          => /\ Ver(Combined[k]) <= Ver(Combined[i])
                             /\ (k < i => Ver(Combined[k]) < Ver(Combined[i])))
                      => Combined[i] \in Range(files_to_sync))
        /\ \A q \in Range(local_filenames) : \A r \in Remote :
               (Key(q) = Key(r) /\ Ver(q) = Ver(r))
               => /\ r \notin ToFetch
                  /\ StripPrefix(r) \notin Range(files_from_production)
                  /\ StripPrefix(r) \notin Range(files_from_stage)

C3_Witness ==
    /\ Planned
    /\ \E q \in Range(local_filenames) : \E r \in Range(stage_filenames) :
           /\ Key(q) = Key(r) /\ Ver(q) = Ver(r)
           /\ q \in Unchanged
    /\ ToFetch # {}

\* C4: for every key of the inventory the resolver selects exactly one record,
\* a record of the inventory whose version is at least that of every record of
\* the key; the empty inventory gives the empty result
C4_OnePerKey ==
    /\ get_latest_files(<<>>) = <<>>
    /\ Planned =>
        \A i \in DOMAIN Combined :
            LET sel == {j \in DOMAIN files_to_sync :
                            Key(files_to_sync[j]) = Key(Combined[i])}
            IN  /\ Cardinality(sel) = 1
                /\ \A j \in sel :
                    /\ files_to_sync[j] \in Range(Combined)
                    /\ Ver(files_to_sync[j]) >= Ver(Combined[i])
                /\ (\A k \in DOMAIN Combined :
                        k # i => Key(Combined[k]) # Key(Combined[i]))
                   => Combined[i] \in Range(files_to_sync)
    /\ Planned => Range(files_to_sync) \subseteq Range(Combined)

C4_Witness ==
    /\ Planned
    /\ Len(files_to_sync) = 2
    /\ Len(Combined) = 3
    /\ \E i, j \in DOMAIN Combined :
           Key(Combined[i]) = Key(Combined[j]) /\ Ver(Combined[i]) < Ver(Combined[j])

\* where a fetched file lands under l1b_dir
Landed == {Join(l1b_dir, StripPrefix(p)) : p \in ToFetch}

Disjoint ==
    /\ ToFetch \cap ToDeleteLocal = {}
    /\ ToFetch \cap Unchanged = {}
    /\ ToDeleteLocal \cap Unchanged = {}
    /\ Landed \cap ToDeleteLocal = {}

\* for every key of the combined inventory the local tree holds exactly one
\* file, the copy of the record the resolver selected
Converged ==
    \A i \in DOMAIN Combined :
        {Join(l1b_dir, r) : r \in {x \in disk : Key(x) = Key(Combined[i])}}
        = {Join(l1b_dir, StripPrefix(w)) :
               w \in {v \in LatestSet : Key(v) = Key(Combined[i])}}

\* C5 as stated: for all inputs the three sets are disjoint and, the plan
\* applied, the local tree holds one record per observed key, the winner
C5_Original ==
    /\ (CleanedUp \/ pc = "returned") => Disjoint
    /\ (Applied \/ pc = "returned") => Converged

\* C5 (amended): with the default pattern and a remote listing that is not
\* empty, the three sets are disjoint, no fetched file is listed for deletion,
\* and once the plan is applied the local tree holds for every observed key
\* exactly the selected record
C5_Partition ==
    /\ (CleanedUp /\ pattern = "*.fits*") => Disjoint
    /\ (Applied /\ pattern = "*.fits*") => Converged

C5_Witness ==
    /\ Applied
    /\ pattern = "*.fits*"
    /\ ToFetch # {}
    /\ ToDeleteLocal # {}
    /\ Unchanged # {}

\* a second run, after a first run whose plan was applied in full; the VM and
\* the arguments are those of the first run
SecondRun ==
    /\ first # <<>>
    /\ first[1].applied
    /\ Planned \/ pc = "returned"

\* C6 as stated: whenever the local inventory is the latest set of the combined
\* inventory, nothing is fetched and nothing is listed for deletion; a run after
\* a fully applied run transfers nothing and deletes nothing
C6_Original ==
    /\ ((Planned \/ pc = "returned") /\ Range(local_filenames) = LatestSet)
       => (ToFetch = {} /\ ToDeleteLocal = {})
    /\ SecondRun => (ToFetch = {} /\ ToDeleteLocal = {} /\ disk = first[1].disk)

\* C6 (amended): when the local inventory is the latest set nothing is fetched,
\* and with the default pattern nothing is listed for deletion; with the default
\* pattern a run after a fully applied run transfers nothing and deletes nothing
C6_NoOp ==
    /\ ((Planned \/ pc = "returned") /\ Range(local_filenames) = LatestSet)
       => /\ ToFetch = {}
          /\ pattern = "*.fits*" => ToDeleteLocal = {}
    /\ (SecondRun /\ pattern = "*.fits*")
       => (ToFetch = {} /\ ToDeleteLocal = {} /\ disk = first[1].disk)

\* a second run reaches its end after a first run that fetched and deleted
C6_Witness ==
    /\ SecondRun
    /\ pc = "done"
    /\ pattern = "*.fits*"
    /\ Range(local_filenames) = LatestSet
    /\ Remote # {}
    /\ \E r \in Remote : StripPrefix(r) \in first[1].disk
    /\ \E r \in Remote : StripPrefix(r) \notin first[1].disk

Malformed(p) == ~parse(p).ok

\* p is the first record of its key in the combined inventory
FirstOfKey(p) ==
    \A i \in DOMAIN Combined :
        Key(Combined[i]) = Key(p) => \E j \in 1..i : Combined[j] = p

IndexIn(s, x) == CHOOSE i \in DOMAIN s : s[i] = x

NoRepeat(s) == \A i, j \in DOMAIN s : i # j => s[i] # s[j]

\* C8: every path of the latest set that is not local is in exactly one of the
\* two transfer lists, the one of its root, with the root's prefix taken off; no
\* local path is in a list; each list keeps the order of files_to_sync
C8_Attribution ==
    Planned =>
        /\ \A p \in Range(files_to_sync) :
               /\ p.dir = production_l1b
                  => /\ StripPrefix(p) \in Range(files_from_production)
                     /\ StripPrefix(p) \notin Range(files_from_stage)
               /\ p.dir = stage_l1b
                  => /\ StripPrefix(p) \in Range(files_from_stage)
                     /\ StripPrefix(p) \notin Range(files_from_production)
               /\ p.dir = l1b_dir
                  => /\ StripPrefix(p) \notin Range(files_from_production)
                     /\ StripPrefix(p) \notin Range(files_from_stage)
        /\ NoRepeat(files_from_production) /\ NoRepeat(files_from_stage)
        /\ Len(files_from_production) + Len(files_from_stage)
               = Cardinality({p \in LatestSet : p.dir # l1b_dir})
        /\ \A r \in Range(files_from_production) \cup Range(files_from_stage) :
               r \in RelPaths
        /\ \A i, j \in DOMAIN files_from_production :
               i < j => IndexIn(files_to_sync, Join(production_l1b, files_from_production[i]))
                        < IndexIn(files_to_sync, Join(production_l1b, files_from_production[j]))
        /\ \A i, j \in DOMAIN files_from_stage :
               i < j => IndexIn(files_to_sync, Join(stage_l1b, files_from_stage[i]))
                        < IndexIn(files_to_sync, Join(stage_l1b, files_from_stage[j]))

C8_Witness ==
    /\ Planned
    /\ Len(files_from_production) = 2
    /\ Len(files_from_stage) = 1

\* the relative paths both remote roots list
Ambiguous ==
    {r \in RelPaths : /\ Join(production_l1b, r) \in Range(prod_filenames)
                      /\ Join(stage_l1b, r) \in Range(stage_filenames)}

Warned == \E k \in DOMAIN out : out[k].ev = "ambiguous source"

\* C9 as stated: a file listed by both roots is reported with a warning and, when
\* it is fetched, is fetched from production and not from stage
C9_Original ==
    (Planned /\ Ambiguous # {}) =>
        /\ Warned
        /\ \A r \in Ambiguous :
               /\ r \notin Range(files_from_stage)
               /\ Join(production_l1b, r) \in LatestSet => r \in Range(files_from_production)

\* C9 (amended): a file listed by both roots is reported by no warning; its
\* stage copy is never selected, and it is in the production list, once, exactly
\* when its production copy is in the latest set
C9_FirstRoot ==
    (Planned /\ Ambiguous # {}) =>
        /\ ~Warned
        /\ \A r \in Ambiguous :
               /\ r \notin Range(files_from_stage)
               /\ Join(stage_l1b, r) \notin Range(files_to_sync)
               /\ r \in Range(files_from_production) <=> Join(production_l1b, r) \in LatestSet
               /\ Cardinality({k \in DOMAIN files_from_production :
                                   files_from_production[k] = r}) <= 1

\* a file both roots list has been fetched from production
C9_Witness ==
    /\ pc = "done"
    /\ l1b
    /\ Unchanged # {}
    /\ \E r \in Ambiguous : r \in Range(files_from_production) /\ r \in disk

\* what a root holds that the pattern matches
OnServer(t, dir) == {Join(dir, r) : r \in {x \in server[t] : Match(pattern, x)}}

\* the matching files of the folders whose ls failed
Skipped(t, dir) == {p \in OnServer(t, dir) : p.folder \in unlistable[t]}

\* C10 as stated: the resolver and the deletion step run only on complete
\* listings of the two roots
C10_Original ==
    Planned =>
        /\ Range(prod_filenames) = OnServer("production", production_l1b)
        /\ Range(stage_filenames) = OnServer("stage", stage_l1b)

\* C10 (amended): a folder whose listing fails is left out of the root's listing
\* and the run goes on: the resolver and the deletion step run on the files of
\* the other folders as soon as one listing is not empty; the run returns when
\* both listings are empty; it fails, with nothing planned, when the connection
\* to the VM fails
C10_SkippedFolders ==
    /\ (Planned \/ pc \in {"glob", "check", "returned"}) =>
        /\ Range(prod_filenames)
               = OnServer("production", production_l1b) \ Skipped("production", production_l1b)
        /\ Range(stage_filenames)
               = OnServer("stage", stage_l1b) \ Skipped("stage", stage_l1b)
    /\ Planned => Remote # {}
    /\ pc = "returned" => (Remote = {} /\ files_to_sync = <<>>)
    /\ (pc = "raised" /\ out # <<>>
           /\ out[Len(out)].ev = "Fetching names of level 1B production and stage files from the VM...")
       => (files_to_sync = <<>> /\ ToFetch = {} /\ ToDeleteLocal = {})

\* the delete set is computed although a folder with matching files was skipped
C10_Witness ==
    /\ pc = "prompt"
    /\ Skipped("production", production_l1b) \cup Skipped("stage", stage_l1b) # {}
    /\ ToFetch # {}
    /\ ToDeleteLocal # {}

\* an event ev is printed before the k-th event
Before(k, ev) == \E i \in 1..(k - 1) : out[i].ev = ev

\* the k-th event removed local files
Destructive(k) == out[k].ev \in {"os.remove", "rsync --delete spice"} /\ out[k].n > 0

\* C11 as stated: before any removal of a local file, that of the SPICE rsync
\* with --delete included, the numbers of files to fetch and of files to delete
\* have been printed
C11_Original ==
    \A k \in DOMAIN out :
        Destructive(k) =>
            /\ Before(k, "Syncing files from production...")
            /\ Before(k, "Syncing files from stage...")
            /\ Before(k, "Delete old files? (y/n/p)")

\* C11 (amended): before os.remove the numbers of files to fetch from production
\* and from stage have been printed, and the question just before it gave the
\* number of files removed; while no os.remove has run the files of the local
\* listing are still there; the SPICE rsync with --delete runs before any number
\* is printed
C11_CountsBeforeRemove ==
    /\ \A k \in DOMAIN out :
           out[k].ev = "os.remove" =>
               /\ k > 1
               /\ out[k - 1] = Event("Delete old files? (y/n/p)", out[k].n)
               /\ out[k].n = Cardinality(local_files_to_delete)
               /\ \E i \in 1..(k - 1) :
                      out[i] = Event("Syncing files from production...",
                                     Len(files_from_production))
               /\ \E i \in 1..(k - 1) :
                      out[i] = Event("Syncing files from stage...", Len(files_from_stage))
    /\ (Planned /\ ~(\E k \in DOMAIN out : out[k].ev = "os.remove"))
       => \A p \in Range(local_filenames) : StripPrefix(p) \in disk
    /\ \A k \in DOMAIN out :
           out[k].ev = "rsync --delete spice" =>
               /\ ~Before(k, "Syncing files from production...")
               /\ ~Before(k, "Syncing files from stage...")
               /\ ~Before(k, "Delete old files? (y/n/p)")

\* a run in which the SPICE rsync removed a kernel and os.remove removed a file
C11_Witness ==
    /\ pc = "done"
    /\ \E k \in DOMAIN out : out[k].ev = "rsync --delete spice" /\ out[k].n > 0
    /\ \E k \in DOMAIN out : out[k].ev = "os.remove"
    /\ "stale.bsp" \notin spice_dir

Asked == Event("Delete old files? (y/n/p)", Cardinality(local_files_to_delete))

\* C13: a step removes local files only at the prompt, after both transfers have
\* put their files under l1b_dir, when the answer is y, and it removes the delete
\* set; the answer n leaves the prompt with every file kept; any other answer
\* asks again with the same delete set; with an empty delete set nothing is asked
C13_DeletePrompt ==
    [][
        /\ ~(disk \subseteq disk')
           => /\ pc = "prompt" /\ pc' = "index"
              /\ Range(files_from_production) \cup Range(files_from_stage) \subseteq disk
              /\ Before(Len(out) + 1, "Syncing files from production...")
              /\ Before(Len(out) + 1, "Syncing files from stage...")
              /\ out' = out \o <<Asked, Event("os.remove", Cardinality(local_files_to_delete))>>
              /\ disk' = disk \ {StripPrefix(f) : f \in local_files_to_delete}
        /\ (pc = "prompt" /\ out' = Append(out, Asked))
           => (pc' = "index" /\ disk' = disk)
        /\ (pc = "prompt" /\ local_files_to_delete # {} /\ Len(out') = Len(out) + 2
              /\ out'[Len(out')].ev # "os.remove")
           => /\ pc' = "prompt"
              /\ out'[Len(out) + 1] = Asked
              /\ local_files_to_delete' = local_files_to_delete
              /\ disk' = disk
        /\ (pc = "prompt" /\ local_files_to_delete # {})
           => (Len(out') > Len(out) /\ out'[Len(out) + 1] = Asked)
        /\ (pc = "prompt" /\ local_files_to_delete = {})
           => (out' = out /\ disk' = disk /\ pc' = "index")
        /\ pc # "prompt" => (\A k \in DOMAIN out' : k > Len(out) => out'[k].ev # Asked.ev)
    ]_vars

\* the list was printed, then the answer was y and the delete set is gone
C13_Witness ==
    /\ pc = "index"
    /\ asked = 1
    /\ local_files_to_delete # {}
    /\ ToFetch # {}
    /\ \E k \in DOMAIN out : out[k].ev = "print file list"
    /\ out[Len(out)].ev = "os.remove"
    /\ \A f \in local_files_to_delete : StripPrefix(f) \notin disk

\* the server reports sync_integrated_reports is to bring up to date
SelectedReports ==
    {f \in Range(ReportNames) :
        /\ reports[f] # NoFile
        /\ check_old \/ ir_before[f] = NoFile \/ report_age[f] < Days}

\* C12: after sync_integrated_reports every selected report is a local file
\* with the content the server has for it, empty for a report of zero size, and
\* a local file that had that content already has not been written
C12_ReportsSynced ==
    ir_pc = "done" =>
        \A f \in SelectedReports :
            /\ integrated_reports_dir[f] = reports[f]
            /\ ir_before[f] = reports[f] => f \notin written

====
